---- MODULE Spec2Model ----
(***************************************************************************)
(* Model of ivy/functional/backends/jax/general.py: the gather / scatter   *)
(* index arithmetic and the emulation of in-place mutation on wrappers.    *)
(*                                                                         *)
(* An array is a record [shape |-> <<d1, ..., dr>>, flat |-> <<...>>]: its *)
(* shape and its elements in row-major order.  Coordinates are 0-based as  *)
(* in the source; TLA+ sequences are 1-based.                              *)
(***************************************************************************)
EXTENDS Integers, Sequences, FiniteSets, TLC

VARIABLES
  pc,      \* "call": the arguments are bound; "done": the call has ended
  args,    \* the arguments of the call
  ret,     \* the value the call returned (NoValue when it raised)
  err,     \* the exception the call raised (NoErr when it returned)
  phases,  \* the steps of the function body that ran, in order
  heap,    \* the objects the caller holds: wrappers (data slot) and natives
  hist     \* per wrapper: data at the start, sum of increments, of decrements

vars == <<pc, args, ret, err, phases, heap, hist>>

----------------------------------------------------------------------------
(* Bounds of the model *)

\* largest extent of one axis of an array
MaxDim == 2
\* largest number of elements of a params / target array
MaxElems == 8
\* largest number of index rows (index tuples, or flat indices)
MaxRows == 2

----------------------------------------------------------------------------
(* Shapes and arrays *)

NoValue == [shape |-> <<>>, flat |-> <<>>, none |-> TRUE]
NoErr == [exc |-> "none", site |-> "none", value |-> "none"]
Raise(exc, site, value) == [exc |-> exc, site |-> site, value |-> value]

Min2(a, b) == IF a <= b THEN a ELSE b

\* reduce(mul, s, 1)
RECURSIVE Prod(_)
Prod(s) == IF s = <<>> THEN 1 ELSE Head(s) * Prod(Tail(s))

\* sum(s)
RECURSIVE SumSeq(_)
SumSeq(s) == IF s = <<>> THEN 0 ELSE Head(s) + SumSeq(Tail(s))

\* s[lo:hi] and s[lo:] of a Python sequence (0-based, hi exclusive)
PySlice(s, lo, hi) == SubSeq(s, lo + 1, hi)
PyFrom(s, lo) == SubSeq(s, lo + 1, Len(s))

\* the coordinates of an array of the given shape
Coords(shape) ==
  { c \in [1..Len(shape) -> 0..(MaxElems - 1)] :
      \A i \in 1..Len(shape) : c[i] < shape[i] }

\* row-major offset of coordinates c in an array of the given shape
RECURSIVE RowMajor(_, _, _)
RowMajor(shape, c, acc) ==
  IF shape = <<>> THEN acc
  ELSE RowMajor(Tail(shape), Tail(c), acc * Head(shape) + Head(c))

\* the element of arr at coordinates c
At(arr, c) == arr.flat[RowMajor(arr.shape, c, 0) + 1]

\* the coordinates of row-major offset off
RECURSIVE Unravel(_, _)
Unravel(shape, off) ==
  IF shape = <<>> THEN <<>>
  ELSE LET inner == Prod(Tail(shape))
       IN  <<off \div inner>> \o Unravel(Tail(shape), off % inner)

\* jnp.reshape(arr, shape)
Reshape(arr, shape) == [shape |-> shape, flat |-> arr.flat]

\* an array with pairwise distinct elements
Iota(shape) == [shape |-> shape, flat |-> [i \in 1..Prod(shape) |-> 10 + i]]

\* the shapes of rank lo..hi with extents 1..MaxDim and at most MaxElems elements
ShapesOfRank(r) ==
  { s \in [1..r -> 1..MaxDim] : Prod(s) <= MaxElems }
Shapes(lo, hi) == UNION { ShapesOfRank(r) : r \in lo..hi }

----------------------------------------------------------------------------
(* gather_nd *)

\* res_dim_sizes_list: the row-major stride of every axis of params
ResDimSizesBad(params_shape) ==
  [i \in 1..Len(params_shape) |->
     IF i < Len(params_shape)
     THEN Prod(SubSeq(params_shape, i, Len(params_shape)))
     ELSE 1]

ResDimSizes(params_shape) ==
  [i \in 1..Len(params_shape) |->
     IF i < Len(params_shape)
     THEN Prod(PyFrom(params_shape, i))
     ELSE 1]

\* jnp.sum(indices * indices_scales, -1): the flat offset of each index tuple
IndicesForFlat(indices, result_dim_sizes) ==
  LET k == indices.shape[Len(indices.shape)]
      rows == Prod(PySlice(indices.shape, 0, Len(indices.shape) - 1))
  IN  [r \in 1..rows |->
         SumSeq([j \in 1..k |->
                   indices.flat[(r - 1) * k + j] * result_dim_sizes[j]])]

\* indices_for_flat_tiled + implicit_indices, flattened
FlatIndicesForFlat(indices_for_flat, implicit_indices_factor) ==
  [n \in 1..(Len(indices_for_flat) * implicit_indices_factor) |->
     indices_for_flat[((n - 1) \div implicit_indices_factor) + 1]
       + ((n - 1) % implicit_indices_factor)]

gather_nd(params, indices) ==
  LET indices_shape == indices.shape
      params_shape == params.shape
      num_index_dims == indices_shape[Len(indices_shape)]
      result_dim_sizes == ResDimSizes(params_shape)
      implicit_indices_factor == result_dim_sizes[num_index_dims]
      flat_params == params.flat
      flat_indices_for_flat ==
        FlatIndicesForFlat(IndicesForFlat(indices, result_dim_sizes),
                           implicit_indices_factor)
      flat_gather ==
        [n \in 1..Len(flat_indices_for_flat) |->
           flat_params[flat_indices_for_flat[n] + 1]]
      new_shape == PySlice(indices_shape, 0, Len(indices_shape) - 1)
                     \o PyFrom(params_shape, num_index_dims)
  IN  [shape |-> new_shape, flat |-> flat_gather]

\* index arrays of shape lead \o <<k>> whose tuples are in range for pshape
IndexArrays(pshape, lead, k) ==
  LET n == Prod(lead) * k
  IN  { [shape |-> lead \o <<k>>, flat |-> f] :
          f \in { g \in [1..n -> 0..(MaxDim - 1)] :
                    \A i \in 1..n : g[i] < pshape[((i - 1) % k) + 1] } }

LeadShapes ==
  {<<>>} \cup { <<n>> : n \in 1..MaxRows }
         \cup { <<1, n>> : n \in 1..MaxRows }
         \cup { <<n, 1>> : n \in 1..MaxRows }

\* the arguments of a gather_nd call: every params shape, every number k of
\* index dimensions, every in-range index array
GatherNdArgs(a) ==
  \E ps \in Shapes(1, 3) :
    \E lead \in LeadShapes, k \in 1..Len(ps) :
      \E ix \in IndexArrays(ps, lead, k) :
        a = [fn |-> "gather_nd", params |-> Iota(ps), indices |-> ix]

----------------------------------------------------------------------------
(* gather *)

\* what jnp.take does with an index outside the axis is the engine's choice:
\* it fills the element in (Fill stands for the fill value) or clips the index
Fill == -1
TakeModes == {"fill", "clip"}

\* a[n] for an array a: the n-th slice along the first axis
Sub(arr, n) ==
  LET inner == Prod(Tail(arr.shape))
  IN  [shape |-> Tail(arr.shape),
       flat |-> SubSeq(arr.flat, n * inner + 1, (n + 1) * inner)]

AxisInRange(axis, rank) == (0 - rank) <= axis /\ axis < rank
NormAxis(axis, rank) == IF axis < 0 THEN axis + rank ELSE axis

\* jnp.take(p, i, axis), the axis being in range
Take(p, i, axis, mode) ==
  LET ax == NormAxis(axis, Len(p.shape))
      ni == Len(i.shape)
      new_shape == PySlice(p.shape, 0, ax) \o i.shape \o PyFrom(p.shape, ax + 1)
      elem(n) ==
        LET c == Unravel(new_shape, n - 1)
            j == At(i, SubSeq(c, ax + 1, ax + ni))
            jc == Min2(j, p.shape[ax + 1] - 1)
        IN  IF j >= p.shape[ax + 1] /\ mode = "fill" THEN Fill
            ELSE At(p, SubSeq(c, 1, ax) \o <<jc>> \o SubSeq(c, ax + ni + 1, Len(c)))
  IN  [shape |-> new_shape, flat |-> [n \in 1..Prod(new_shape) |-> elem(n)]]

\* [(p, i) for p, i in zip(params, indices)]
ZipArrays(p, i) ==
  [n \in 1..Min2(p.shape[1], i.shape[1]) |-> <<Sub(p, n - 1), Sub(i, n - 1)>>]

RECURSIVE Concat(_)
Concat(ss) == IF ss = <<>> THEN <<>> ELSE Head(ss) \o Concat(Tail(ss))

\* zip_list after the loop "for b in range(batch_dims)"
RECURSIVE ZipList(_, _, _)
ZipList(params, indices, batch_dims) ==
  IF batch_dims = 1 THEN ZipArrays(params, indices)
  ELSE LET zip_list == ZipList(params, indices, batch_dims - 1)
       IN  Concat([n \in 1..Len(zip_list) |->
                     ZipArrays(zip_list[n][1], zip_list[n][2])])

\* the axis handed to jnp.take on each per-batch slice
SliceAxis(axis, batch_dims, rank) == axis - batch_dims

\* gather: <<result, error>>
gather(params, indices, axis, batch_dims, mode) ==
  IF batch_dims = 0
  THEN IF AxisInRange(axis, Len(params.shape))
       THEN <<Take(params, indices, axis, mode), NoErr>>
       ELSE <<NoValue, Raise("engine", "take", "axis")>>
  ELSE LET zip_list == ZipList(params, indices, batch_dims)
           ax == SliceAxis(axis, batch_dims, Len(params.shape))
           ok == \A n \in 1..Len(zip_list) :
                   AxisInRange(ax, Len(zip_list[n][1].shape))
           result == [n \in 1..Len(zip_list) |->
                        Take(zip_list[n][1], zip_list[n][2], ax, mode)]
           stacked == [shape |-> <<Len(result)>> \o result[1].shape,
                       flat |-> Concat([n \in 1..Len(result) |-> result[n].flat])]
           new_shape == PySlice(params.shape, 0, batch_dims) \o Tail(stacked.shape)
       IN  IF ~ok THEN <<NoValue, Raise("engine", "take", "axis")>>
           ELSE IF Prod(new_shape) # Prod(stacked.shape)
           THEN <<NoValue, Raise("engine", "reshape", "shape")>>
           ELSE <<Reshape(stacked, new_shape), NoErr>>

\* index contents: a, b, b, a, b, b, ...
Pattern(a, b, len) == [i \in 1..len |-> IF i % 3 = 1 THEN a ELSE b]

\* the axis of params that the caller's axis argument names
Designated(axis, rank) == IF axis < 0 THEN rank + axis ELSE axis

\* the axis values that name a non-batch axis of params
AxisValues(rank, batch_dims) ==
  { z \in (0 - rank)..(rank - 1) : Designated(z, rank) >= batch_dims }

\* the arguments of a gather call: indices in range for the named axis
GatherArgs(g) ==
  \E ps \in Shapes(1, 3) :
    \E b \in 0..(Len(ps) - 1) :
      \E a \in AxisValues(Len(ps), b) :
        LET ext == ps[Designated(a, Len(ps)) + 1]
        IN  \E x \in 0..(ext - 1), y \in 0..(ext - 1),
               ish \in {<<>>} \cup { <<n>> : n \in 1..MaxRows } :
              g = [fn |-> "gather", params |-> Iota(ps),
                   indices |-> [shape |-> PySlice(ps, 0, b) \o ish,
                                flat |-> Pattern(x, y,
                                           Prod(PySlice(ps, 0, b) \o ish))],
                   axis |-> a, batch_dims |-> b]

----------------------------------------------------------------------------
(* Index-Transfer Engine: one call of gather_nd or gather *)

NoHeap == <<>>

InitGather ==
  /\ pc = "call"
  /\ (GatherNdArgs(args) \/ GatherArgs(args))
  /\ ret = NoValue
  /\ err = NoErr
  /\ phases = <<>>
  /\ heap = NoHeap
  /\ hist = NoHeap

GatherNdCall ==
  /\ pc = "call"
  /\ args.fn = "gather_nd"
  /\ ret' = gather_nd(args.params, args.indices)
  /\ pc' = "done"
  /\ UNCHANGED <<args, err, phases, heap, hist>>

GatherCall ==
  /\ pc = "call"
  /\ args.fn = "gather"
  /\ \E mode \in TakeModes :
       LET r == gather(args.params, args.indices, args.axis, args.batch_dims,
                       mode)
       IN  ret' = r[1] /\ err' = r[2]
  /\ pc' = "done"
  /\ UNCHANGED <<args, phases, heap, hist>>

NextGather == GatherNdCall \/ GatherCall

SpecGather == InitGather /\ [][NextGather]_vars

----------------------------------------------------------------------------
(* Claims on the Index-Transfer Engine *)

\* the index tuple stored at position pos of indices
TupleAt(indices, pos) ==
  [j \in 1..indices.shape[Len(indices.shape)] |-> At(indices, pos \o <<j - 1>>)]

\* C1: gather_nd returns an array of shape indices.shape[:-1] + A.shape[k:]
\* whose slice at every position pos of indices.shape[:-1] is the full
\* trailing slice A[t[0], ..., t[k-1], ...] of the tuple t stored at pos.
C1_GatherNdBlock ==
  (pc = "done" /\ args.fn = "gather_nd") =>
    LET A == args.params
        ix == args.indices
        k == ix.shape[Len(ix.shape)]
        lead == PySlice(ix.shape, 0, Len(ix.shape) - 1)
        trail == PyFrom(A.shape, k)
    IN  /\ ret.shape = lead \o trail
        /\ Len(ret.flat) = Prod(lead \o trail)
        /\ \A pos \in Coords(lead) : \A rest \in Coords(trail) :
             At(ret, pos \o rest) = At(A, TupleAt(ix, pos) \o rest)

\* C1 witness: two different tuples, each selecting a trailing block of
\* several elements, the second block gathered from the end of params.
C1_Witness ==
  /\ pc = "done" /\ args.fn = "gather_nd"
  /\ args.params.shape = <<2, 2, 2>>
  /\ args.indices = [shape |-> <<2, 1>>, flat |-> <<1, 0>>]
  /\ ret = [shape |-> <<2, 2, 2>>, flat |-> <<15, 16, 17, 18, 11, 12, 13, 14>>]

\* C9: batched gather: the leading batch_dims axes of the result have the
\* batch shape of params, and for every batch coordinate c the slice
\* result[c] is the take of params[c] at indices[c] along the non-batch axis
\* of params that the caller's axis (positive or negative) names.
C9_BatchedGather ==
  (pc = "done" /\ args.fn = "gather" /\ args.batch_dims > 0) =>
    LET P == args.params
        ix == args.indices
        b == args.batch_dims
        d == Designated(args.axis, Len(P.shape))
        batch == PySlice(P.shape, 0, b)
        pre == PySlice(P.shape, b, d)
        ish == PyFrom(ix.shape, b)
        post == PyFrom(P.shape, d + 1)
    IN  /\ err = NoErr
        /\ ret.shape = batch \o pre \o ish \o post
        /\ \A c \in Coords(batch) : \A u \in Coords(pre) :
           \A j \in Coords(ish) : \A v \in Coords(post) :
             At(ret, c \o u \o j \o v) = At(P, c \o u \o <<At(ix, c \o j)>> \o v)

\* the same statement for the axis values that are not negative
C9_BatchedGatherNonNegativeAxis ==
  (pc = "done" /\ args.fn = "gather" /\ args.axis < 0) \/ C9_BatchedGather

\* a batched gather along a non-negative axis that returned
C9_WitnessNonNegativeAxis ==
  /\ pc = "done" /\ args.fn = "gather" /\ args.batch_dims = 1
  /\ args.axis = 2 /\ args.params.shape = <<2, 2, 2>>
  /\ args.indices = [shape |-> <<2, 2>>, flat |-> <<1, 0, 0, 1>>]
  /\ err = NoErr

----------------------------------------------------------------------------
(* Mutation-Emulation Layer *)

\* largest magnitude of the data of a wrapper
MaxVal == 4
\* largest number of inplace_increment / inplace_decrement calls in a run
MaxCalls == 3

Wrappers == {"w1", "w2"}
Natives == {"n1", "n2"}
NonArrays == {"py"}
Objects == Wrappers \cup Natives \cup NonArrays

\* what a call of this layer returned: the object passed in, or a new wrapper
NoRet == [kind |-> "none", id |-> "none", data |-> 0]
RetRef(id) == [kind |-> "ref", id |-> id, data |-> 0]
RetNew(v) == [kind |-> "new ivy.Array", id |-> "none", data |-> v]

\* ivy.is_ivy_array, ivy.is_native_array, ivy.is_array
is_ivy_array(h, x) == h[x].kind = "ivy.Array"
is_native(h, x) == h[x].kind = "native"
is_array(h, x) == is_ivy_array(h, x) \/ is_native(h, x)

\* ivy.args_to_native: the data of a wrapper, anything else as it is
to_native(h, x) == h[x].v

Unsupported ==
  Raise("IvyException", "inplace_update",
        "JAX does not natively support inplace updates")

inplace_update_no_rebind(h, x, val, ensure_in_backend) ==
  IF is_array(h, x) /\ is_array(h, val)
  THEN IF ensure_in_backend \/ ~is_ivy_array(h, x)
       THEN [heap |-> h, ret |-> NoRet, err |-> Unsupported]
       ELSE [heap |-> h, ret |-> RetRef(x), err |-> NoErr]
  ELSE [heap |-> h, ret |-> RetRef(val), err |-> NoErr]

inplace_update(h, x, val, ensure_in_backend) ==
  IF is_array(h, x) /\ is_array(h, val)
  THEN IF ensure_in_backend
       THEN [heap |-> h, ret |-> NoRet, err |-> Unsupported]
       ELSE LET val_native == to_native(h, val)
            IN  IF is_ivy_array(h, x)
                THEN [heap |-> [h EXCEPT ![x].v = val_native],
                      ret |-> RetRef(x), err |-> NoErr]
                ELSE [heap |-> h, ret |-> NoRet, err |-> Unsupported]
  ELSE [heap |-> h, ret |-> RetRef(val), err |-> NoErr]

inplace_decrement_new_wrapper(h, x, val) ==
  [heap |-> h, ret |-> RetNew(to_native(h, x) - to_native(h, val)),
   err |-> NoErr]

inplace_decrement(h, x, val) ==
  LET x_native == to_native(h, x)
      val_native == to_native(h, val)
  IN  IF is_ivy_array(h, x)
      THEN [heap |-> [h EXCEPT ![x].v = h[x].v - val_native],
            ret |-> RetRef(x), err |-> NoErr]
      ELSE [heap |-> h, ret |-> RetNew(x_native - val_native), err |-> NoErr]

inplace_increment(h, x, val) ==
  LET x_native == to_native(h, x)
      val_native == to_native(h, val)
  IN  IF is_ivy_array(h, x)
      THEN [heap |-> [h EXCEPT ![x].v = h[x].v + val_native],
            ret |-> RetRef(x), err |-> NoErr]
      ELSE [heap |-> h, ret |-> RetNew(x_native + val_native), err |-> NoErr]

\* the objects a caller holds before the first call
InitHeaps ==
  { [o \in Objects |->
       CASE o = "w1" -> [kind |-> "ivy.Array", v |-> a]
         [] o = "w2" -> [kind |-> "ivy.Array", v |-> b]
         [] o = "n1" -> [kind |-> "native", v |-> 1]
         [] o = "n2" -> [kind |-> "native", v |-> 2]
         [] OTHER    -> [kind |-> "number", v |-> 3]] :
      a \in {0, 1}, b \in {0, 2} }

NoHist == [n |-> 0, of |-> [w \in Wrappers |-> [base |-> 0, inc |-> 0, dec |-> 0]]]

InitUpdate ==
  /\ pc = "idle"
  /\ args = [fn |-> "none"]
  /\ ret = NoRet
  /\ err = NoErr
  /\ phases = <<>>
  /\ heap \in InitHeaps
  /\ hist = NoHist

\* one call inplace_update(x, val, ensure_in_backend)
InplaceUpdateCall ==
  \E x \in Objects, val \in Objects, e \in BOOLEAN :
    LET r == inplace_update(heap, x, val, e)
    IN  /\ args' = [fn |-> "inplace_update", x |-> x, val |-> val,
                    ensure_in_backend |-> e, pre |-> heap]
        /\ heap' = r.heap
        /\ ret' = r.ret
        /\ err' = r.err
        /\ pc' = "done"
        /\ UNCHANGED <<phases, hist>>

NextUpdate == InplaceUpdateCall

SpecUpdate == InitUpdate /\ [][NextUpdate]_vars

InitIncDec ==
  /\ pc = "idle"
  /\ args = [fn |-> "none"]
  /\ ret = NoRet
  /\ err = NoErr
  /\ phases = <<>>
  /\ heap \in InitHeaps
  /\ hist = [n |-> 0,
             of |-> [w \in Wrappers |->
                       [base |-> heap[w].v, inc |-> 0, dec |-> 0]]]

InRange(h) == \A w \in Wrappers : h[w].v <= MaxVal /\ h[w].v >= 0 - MaxVal

\* one call inplace_increment(x, val), x and val arrays
InplaceIncrementCall ==
  \E x \in Wrappers \cup Natives, val \in Wrappers \cup Natives :
    LET r == inplace_increment(heap, x, val)
    IN  /\ hist.n < MaxCalls
        /\ InRange(r.heap)
        /\ args' = [fn |-> "inplace_increment", x |-> x, val |-> val,
                    pre |-> heap]
        /\ heap' = r.heap
        /\ ret' = r.ret
        /\ err' = r.err
        /\ pc' = "done"
        /\ hist' = [n |-> hist.n + 1,
                    of |-> IF x \in Wrappers
                           THEN [hist.of EXCEPT
                                   ![x].inc = @ + to_native(heap, val)]
                           ELSE hist.of]
        /\ UNCHANGED phases

\* one call inplace_decrement(x, val), x and val arrays
InplaceDecrementCall ==
  \E x \in Wrappers \cup Natives, val \in Wrappers \cup Natives :
    LET r == inplace_decrement(heap, x, val)
    IN  /\ hist.n < MaxCalls
        /\ InRange(r.heap)
        /\ args' = [fn |-> "inplace_decrement", x |-> x, val |-> val,
                    pre |-> heap]
        /\ heap' = r.heap
        /\ ret' = r.ret
        /\ err' = r.err
        /\ pc' = "done"
        /\ hist' = [n |-> hist.n + 1,
                    of |-> IF x \in Wrappers
                           THEN [hist.of EXCEPT
                                   ![x].dec = @ + to_native(heap, val)]
                           ELSE hist.of]
        /\ UNCHANGED phases

NextIncDec == InplaceIncrementCall \/ InplaceDecrementCall

SpecIncDec == InitIncDec /\ [][NextIncDec]_vars

----------------------------------------------------------------------------
(* Claims on the Mutation-Emulation Layer *)

UpdateDone == pc = "done" /\ args.fn = "inplace_update"

\* the objects other than x are as before the call
OthersUnchanged(x) == \A o \in Objects \ {x} : heap[o] = args.pre[o]

\* C4: inplace_update(x, val) with ensure_in_backend=False: for arrays x and
\* val, a wrapper x is returned itself with its data slot rebound to val's
\* native value, a bare native x fails with the unsupported-operation error
\* and changes nothing; an x that is no array returns val, changing nothing.
C4_InplaceUpdate ==
  (UpdateDone /\ ~args.ensure_in_backend) =>
    LET x == args.x
        val == args.val
        pre == args.pre
    IN  /\ (is_ivy_array(pre, x) /\ is_array(pre, val)) =>
             /\ err = NoErr /\ ret = RetRef(x)
             /\ heap[x].v = to_native(pre, val)
             /\ heap[x].kind = "ivy.Array"
             /\ OthersUnchanged(x)
        /\ (is_native(pre, x) /\ is_array(pre, val)) =>
             /\ err = Unsupported /\ ret = NoRet
             /\ heap = pre
        /\ ~is_array(pre, x) =>
             /\ err = NoErr /\ ret = RetRef(val)
             /\ heap = pre

\* C4 witness: a wrapper rebound to the native value of another wrapper,
\* which differs from the data it held
C4_Witness ==
  /\ UpdateDone /\ ~args.ensure_in_backend
  /\ args.x = "w1" /\ args.val = "w2"
  /\ args.pre["w1"].v # args.pre["w2"].v
  /\ heap["w1"].v = args.pre["w2"].v
  /\ ret = RetRef("w1")

\* C5: inplace_update with ensure_in_backend=True fails with the "not
\* natively supported" error for every x and val (wrapper, bare native array
\* or non-array), returns nothing and rebinds no data slot.
C5_EnsureInBackendAlwaysFails ==
  (UpdateDone /\ args.ensure_in_backend) =>
    /\ err = Unsupported
    /\ ret = NoRet
    /\ heap = args.pre

\* the part of C5 that the code keeps: x and val both arrays
C5_EnsureInBackendFailsOnArrays ==
  (UpdateDone /\ args.ensure_in_backend
     /\ is_array(args.pre, args.x) /\ is_array(args.pre, args.val)) =>
    /\ err = Unsupported
    /\ ret = NoRet
    /\ heap = args.pre

IncDecDone ==
  pc = "done" /\ args.fn \in {"inplace_increment", "inplace_decrement"}

Signed(fn, v) == IF fn = "inplace_increment" THEN v ELSE 0 - v

\* C6: inplace_increment / inplace_decrement on a wrapper w return w with
\* its data slot rebound to data + val / data - val, so the data of every
\* wrapper is its initial data plus the increments minus the decrements made
\* on it; on a bare native array x they return a new wrapper holding
\* x + val / x - val and leave x (and every other object) unchanged.
C6_IncrementDecrement ==
  /\ \A w \in Wrappers :
       heap[w].v = hist.of[w].base + hist.of[w].inc - hist.of[w].dec
  /\ IncDecDone =>
       LET x == args.x
           pre == args.pre
           d == Signed(args.fn, to_native(pre, args.val))
       IN  /\ err = NoErr
           /\ is_ivy_array(pre, x) =>
                /\ ret = RetRef(x)
                /\ heap[x].v = pre[x].v + d
                /\ heap[x].kind = "ivy.Array"
                /\ OthersUnchanged(x)
           /\ is_native(pre, x) =>
                /\ ret = RetNew(pre[x].v + d)
                /\ heap = pre

\* C6 witness: after an increment and a decrement on w1 (three calls in
\* all), a call on the bare native n1 returns a new wrapper
C6_Witness ==
  /\ IncDecDone
  /\ hist.n = 3
  /\ hist.of["w1"].inc > 0 /\ hist.of["w1"].dec > 0
  /\ hist.of["w1"].inc # hist.of["w1"].dec
  /\ args.x = "n1" /\ ret.kind = "new ivy.Array"

----------------------------------------------------------------------------
(* Scatter-Reduce Engine: values and dtypes *)

(* Element values are integers counting units of 2^12 = 4096, so that the  *)
(* sentinel 1e12 = 2^12 * 5^12 of the source is the integer 5^12.  Near    *)
(* 1e12 consecutive float32 values are 2^16 apart, that is 16 units.       *)

\* 1e12, the fill value of a fresh "min" target (-1e12 for "max")
Sentinel == 244140625

Abs(v) == IF v < 0 THEN 0 - v ELSE v

\* the distance between consecutive float32 values around v, in units
RECURSIVE Ulp32(_)
Ulp32(v) == IF Abs(v) < 16777216 THEN 1 ELSE 2 * Ulp32(Abs(v) \div 2)

\* round to the nearest float32, ties to the even significand
Round32(v) ==
  LET u == Ulp32(v)
      a == Abs(v)
      lo == (a \div u) * u
      r == a - lo
      m == IF 2 * r < u THEN lo
           ELSE IF 2 * r > u THEN lo + u
           ELSE IF (lo \div u) % 2 = 0 THEN lo ELSE lo + u
  IN  IF v < 0 THEN 0 - m ELSE m

\* a value converted to the dtype of an array
Cast(dtype, v) == IF dtype = "float32" THEN Round32(v) ELSE v

Dtypes == {"float32", "float64"}

\* ivy.exists(x), an optional argument being <<>> (None) or <<x>>
Exists(x) == Len(x) > 0

RECURSIVE SumOver(_, _)
SumOver(S, u) ==
  IF S = {} THEN 0
  ELSE LET j == CHOOSE x \in S : TRUE IN u[j] + SumOver(S \ {j}, u)

MinOf(S) == CHOOSE x \in S : \A y \in S : x <= y
MaxOf(S) == CHOOSE x \in S : \A y \in S : x >= y

\* the updates whose address is the 0-based flat position p of the target
Addressed(addr, p) == { j \in 1..Len(addr) : addr[j] = p }

\* target.at[...].set(updates): the arrays the first p positions may hold
\* (with repeated indices a position keeps any one of its updates)
RECURSIVE SetWrite(_, _, _, _)
SetWrite(t, addr, u, p) ==
  IF p = 0 THEN {<<>>}
  ELSE { Append(s, v) :
           s \in SetWrite(t, addr, u, p - 1),
           v \in IF Addressed(addr, p - 1) = {} THEN {t[p]}
                 ELSE { u[j] : j \in Addressed(addr, p - 1) } }

\* target.at[...].add / .set / .min / .max (updates): the arrays the write
\* may produce
AtWrite(t, addr, u, reduction, dtype) ==
  CASE reduction = "sum" ->
         { [p \in 1..Len(t) |->
              Cast(dtype, t[p] + SumOver(Addressed(addr, p - 1), u))] }
    [] reduction = "min" ->
         { [p \in 1..Len(t) |->
              MinOf({t[p]} \cup { u[j] : j \in Addressed(addr, p - 1) })] }
    [] reduction = "max" ->
         { [p \in 1..Len(t) |->
              MaxOf({t[p]} \cup { u[j] : j \in Addressed(addr, p - 1) })] }
    [] OTHER -> SetWrite(t, addr, u, Len(t))

Full(n, v) == [i \in 1..n |-> v]

\* the fill of a fresh target: zeros, or ones * (+-)1e12 in updates' dtype
FreshFillZeros(n, reduction, dtype) == Full(n, 0)

FreshFill(n, reduction, dtype) ==
  CASE reduction = "min" -> Full(n, Cast(dtype, Sentinel))
    [] reduction = "max" -> Full(n, Cast(dtype, 0 - Sentinel))
    [] OTHER -> Full(n, 0)

\* jnp.where(target == (+-)1e12, 0.0, target) on a fresh min / max target
PostFix(t, reduction, dtype) ==
  CASE reduction = "min" ->
         [p \in 1..Len(t) |-> IF t[p] = Cast(dtype, Sentinel) THEN 0 ELSE t[p]]
    [] reduction = "max" ->
         [p \in 1..Len(t) |->
            IF t[p] = Cast(dtype, 0 - Sentinel) THEN 0 ELSE t[p]]
    [] OTHER -> t

ReductionError(reduction) == Raise("IvyException", "reduction", reduction)
ShapeMismatch == Raise("IvyException", "check_equal", "must be equal")
\* an error that is not the framework's: raised by the engine or by Python
EngineError(site) == Raise("engine", site, "")

Outcome(target, e, ph) == [target |-> target, err |-> e, phases |-> ph]

\* what is written where: ok is FALSE when the engine rejects the write
Write(ok, addr, u) == [ok |-> ok, addr |-> addr, u |-> u]

\* the reduction chain "if reduction == ... else raise": the outcomes of
\* filling (a fresh target of the given shape when no target is given),
\* writing and post-fixing.  target and shape are <<>> or <<x>>.
ReduceUnknownAsSum(target, shape, w, reduction, dtype, ph) ==
  LET given == Exists(target)
      t0 == IF given THEN target[1]
            ELSE [shape |-> shape[1], flat |-> Full(Prod(shape[1]), 0)]
  IN  IF ~given /\ ~Exists(shape)
      THEN { Outcome(NoValue, EngineError("zeros"), ph) }
      ELSE IF ~w.ok
      THEN { Outcome(NoValue, EngineError("at"), ph) }
      ELSE { Outcome([shape |-> t0.shape, flat |-> f], NoErr,
                     ph \o <<"write">>) :
               f \in AtWrite(t0.flat, w.addr, w.u, "sum", dtype) }

Reduce(target, shape, w, reduction, dtype, ph) ==
  LET given == Exists(target)
  IN  IF reduction \notin {"sum", "replace", "min", "max"}
      THEN { Outcome(NoValue, ReductionError(reduction), ph) }
      ELSE IF ~given /\ ~Exists(shape)
      THEN { Outcome(NoValue, EngineError("zeros"), ph) }
      ELSE LET t0 == IF given THEN target[1]
                     ELSE [shape |-> shape[1],
                           flat |-> FreshFill(Prod(shape[1]), reduction, dtype)]
               ph1 == IF given THEN ph ELSE ph \o <<"fill">>
               ph2 == IF ~given /\ reduction \in {"min", "max"}
                      THEN ph1 \o <<"write", "postfix">>
                      ELSE ph1 \o <<"write">>
           IN  IF ~w.ok
               THEN { Outcome(NoValue, EngineError("at"), ph1) }
               ELSE { Outcome([shape |-> t0.shape,
                               flat |-> IF given THEN f
                                        ELSE PostFix(f, reduction, dtype)],
                              NoErr, ph2) :
                        f \in AtWrite(t0.flat, w.addr, w.u, reduction, dtype) }

\* what a scatter call leaves: the heap, the returned array, the error
Result(h, o) == [heap |-> h, ret |-> o.target, err |-> o.err, phases |-> o.phases]

----------------------------------------------------------------------------
(* scatter_flat *)

\* the flat target position each index addresses; out-of-range is dropped
FlatAddr(indices, n) ==
  [j \in 1..Len(indices.flat) |->
     IF indices.flat[j] < n THEN indices.flat[j] ELSE 0 - 1]

\* ivy.assertions.check_equal(len(target.shape), 1) and (target.shape[0], size)
SizeAgrees(target, size) ==
  Len(target.shape) = 1 /\ target.shape[1] = size

scatter_flat(h, indices, updates, size, reduction, out, dtype) ==
  LET target == IF Exists(out) THEN <<h[out[1]].v>> ELSE <<>>
      checked == Exists(size) /\ Exists(target)
      ph == IF checked THEN <<"check_equal">> ELSE <<>>
      n == IF Exists(target) THEN Len(target[1].flat)
           ELSE IF Exists(size) THEN size[1] ELSE 0
      w == Write(TRUE, FlatAddr(indices, n), updates.flat)
  IN  IF checked /\ ~SizeAgrees(target[1], size[1])
      THEN { Result(h, Outcome(NoValue, ShapeMismatch, ph)) }
      ELSE { Result(h, o) :
               o \in Reduce(target, IF Exists(size) THEN <<size>> ELSE <<>>,
                            w, reduction, dtype, ph) }

----------------------------------------------------------------------------
(* scatter_nd *)

\* indices as scatter_nd receives them: the "select everything" marker, or
\* an array (a bare number being the array of shape ())
Ellipsis == [kind |-> "ellipsis", shape |-> <<>>, flat |-> <<>>]
IndexArray(shape, flat) == [kind |-> "array", shape |-> shape, flat |-> flat]

\* "parse numeric inputs": a number becomes [[n]], a 1-D array gets a
\* leading axis
NormalizeIndices(indices) ==
  IF indices.kind = "ellipsis" THEN indices
  ELSE IF Len(indices.shape) = 0 THEN IndexArray(<<1, 1>>, indices.flat)
  ELSE IF Len(indices.shape) < 2
  THEN IndexArray(<<1>> \o indices.shape, indices.flat)
  ELSE indices

\* ivy.broadcast_to
CanBroadcast(from, to) ==
  /\ Len(from) <= Len(to)
  /\ \A i \in 1..Len(from) :
       from[i] = to[Len(to) - Len(from) + i] \/ from[i] = 1

BroadcastTo(arr, to) ==
  [shape |-> to,
   flat |-> [n \in 1..Prod(to) |->
               LET c == Unravel(to, n - 1)
                   off == Len(to) - Len(arr.shape)
               IN  At(arr, [i \in 1..Len(arr.shape) |->
                              IF arr.shape[i] = 1 THEN 0 ELSE c[off + i]])]]

\* which operand the broadcast resolution broadcasts
BroadcastDirectionByCount(updates_shape, expected_shape) ==
  IF Prod(updates_shape) < Prod(expected_shape) THEN "updates"
  ELSE IF Prod(updates_shape) > Prod(expected_shape) THEN "indices"
  ELSE "neither"

BroadcastDirection(updates_shape, expected_shape) ==
  IF SumSeq(updates_shape) < SumSeq(expected_shape) THEN "updates"
  ELSE IF SumSeq(updates_shape) > SumSeq(expected_shape) THEN "indices"
  ELSE "neither"

\* expected_shape, tshape being out.shape when out exists, else shape
ExpectedShape(indices, tshape) ==
  PySlice(indices.shape, 0, Len(indices.shape) - 1)
    \o PyFrom(tshape, Min2(indices.shape[Len(indices.shape)], Len(tshape)))

Resolved(ok, e, indices, updates, ph) ==
  [ok |-> ok, err |-> e, indices |-> indices, updates |-> updates, phases |-> ph]

\* "handle Ellipsis": the broadcast resolution of indices against updates
Resolve(indices, updates, shape, target) ==
  IF indices.kind = "ellipsis" THEN Resolved(TRUE, NoErr, indices, updates, <<>>)
  ELSE IF ~Exists(target) /\ ~Exists(shape)
  THEN Resolved(FALSE, EngineError("expected_shape"), indices, updates, <<>>)
  ELSE
    LET tshape == IF Exists(target) THEN target[1].shape ELSE shape[1]
        expected_shape == ExpectedShape(indices, tshape)
        dir == BroadcastDirection(updates.shape, expected_shape)
        k == indices.shape[Len(indices.shape)]
        ishape == PySlice(updates.shape, 0, 1) \o <<k>>
    IN  CASE dir = "updates" ->
               IF CanBroadcast(updates.shape, expected_shape)
               THEN Resolved(TRUE, NoErr, indices,
                             BroadcastTo(updates, expected_shape),
                             <<"broadcast_updates">>)
               ELSE Resolved(FALSE, EngineError("broadcast_to"), indices,
                             updates, <<"broadcast_updates">>)
          [] dir = "indices" ->
               IF CanBroadcast(indices.shape, ishape)
               THEN Resolved(TRUE, NoErr,
                             [kind |-> "array", shape |-> ishape,
                              flat |-> BroadcastTo(indices, ishape).flat],
                             updates, <<"broadcast_indices">>)
               ELSE Resolved(FALSE, EngineError("broadcast_to"), indices,
                             updates, <<"broadcast_indices">>)
          [] OTHER -> Resolved(TRUE, NoErr, indices, updates, <<>>)

\* target.at[indices_tuple] (updates): the addresses of the update elements
\* in a target of shape tshape
NdWrite(indices, updates, tshape) ==
  IF indices.kind = "ellipsis"
  THEN IF CanBroadcast(updates.shape, tshape)
       THEN Write(TRUE, [e \in 1..Prod(tshape) |-> e - 1],
                  BroadcastTo(updates, tshape).flat)
       ELSE Write(FALSE, <<>>, <<>>)
  ELSE
    LET k == indices.shape[Len(indices.shape)]
        rows == Prod(indices.shape) \div k
        trail == PyFrom(tshape, Min2(k, Len(tshape)))
        sel == <<rows>> \o trail
        tuple(j) == [a \in 1..k |-> indices.flat[(j - 1) * k + a]]
        inside(j) == \A a \in 1..k : tuple(j)[a] < tshape[a]
    IN  IF k > Len(tshape) \/ ~CanBroadcast(updates.shape, sel)
        THEN Write(FALSE, <<>>, <<>>)
        ELSE Write(TRUE,
                   [e \in 1..Prod(sel) |->
                      LET c == Unravel(sel, e - 1)
                      IN  IF inside(c[1] + 1)
                          THEN RowMajor(tshape, tuple(c[1] + 1) \o Tail(c), 0)
                          ELSE 0 - 1],
                   BroadcastTo(updates, sel).flat)

\* "if ivy.exists(out): return ivy.inplace_update(out, _to_device(target))"
UpdateOut(h, out, o) ==
  IF o.err # NoErr \/ ~Exists(out) THEN Result(h, o)
  ELSE LET h2 == [x \in {out[1], "tmp"} |->
                    IF x = out[1] THEN h[out[1]]
                    ELSE [kind |-> "native", v |-> o.target]]
           r == inplace_update(h2, out[1], "tmp", FALSE)
       IN  [heap |-> [h EXCEPT ![out[1]] = r.heap[out[1]]],
            ret |-> IF r.err = NoErr THEN r.heap[r.ret.id].v ELSE NoValue,
            err |-> r.err,
            phases |-> o.phases \o <<"inplace_update">>]

scatter_nd(h, indices0, updates0, shape, reduction, out, dtype) ==
  LET indices1 == NormalizeIndices(indices0)
      updates1 == [shape |-> updates0.shape,
                   flat |-> [i \in 1..Len(updates0.flat) |->
                               Cast(dtype, updates0.flat[i])]]
      target == IF Exists(out) THEN <<h[out[1]].v>> ELSE <<>>
      rs == Resolve(indices1, updates1, shape, target)
      checked == Exists(shape) /\ Exists(target)
      ph == IF checked THEN rs.phases \o <<"check_equal">> ELSE rs.phases
  IN  IF ~rs.ok
      THEN { Result(h, Outcome(NoValue, rs.err, rs.phases)) }
      ELSE IF checked /\ target[1].shape # shape[1]
      THEN { Result(h, Outcome(NoValue, ShapeMismatch, ph)) }
      ELSE IF ~Exists(shape) /\ ~Exists(out)
      THEN { Result(h, Outcome(NoValue, EngineError("shape"), ph)) }
      ELSE LET tshape == IF Exists(shape) THEN shape[1] ELSE target[1].shape
           IN  { UpdateOut(h, out, o) :
                   o \in Reduce(target, <<tshape>>,
                                NdWrite(rs.indices, rs.updates, tshape),
                                reduction, dtype, ph) }

----------------------------------------------------------------------------
(* Scatter-Reduce Engine: one call of scatter_flat or scatter_nd *)

\* largest size of a scatter_flat target
MaxSize == 4

Reductions == {"sum", "replace", "min", "max", "avg"}

\* update values: small ones, and the float32 neighbours of -1e12 and 1e12
Vals == {0 - (Sentinel - 1), 3, 5, Sentinel - 1}

\* a, b, a, b, ...
Alt(a, b, len) == [i \in 1..len |-> IF i % 2 = 1 THEN a ELSE b]

Values(shape, a, b) == [shape |-> shape, flat |-> Alt(a, b, Prod(shape))]

\* the buffer object the caller holds, passed as out or not
Buffer(kind, shape) == [out |-> [kind |-> kind, v |-> Values(shape, 4, 4)]]
NoBuffer == Buffer("native", <<1>>)
Kinds == {"ivy.Array", "native"}

FlatArgs(ix, n, a, b, size, r, out, d) ==
  [fn |-> "scatter_flat", indices |-> IndexArray(<<n>>, ix),
   updates |-> Values(<<n>>, a, b), size |-> size, reduction |-> r,
   out |-> out, dtype |-> d]

NdArgs(indices, updates, shape, r, out, d) ==
  [fn |-> "scatter_nd", indices |-> indices, updates |-> updates,
   shape |-> shape, reduction |-> r, out |-> out, dtype |-> d]

\* fresh min / max targets, the update values varying
FlatValueCases ==
  \E s \in 1..MaxSize, n \in 1..MaxRows :
    \E ix \in [1..n -> 0..(s - 1)], a \in Vals, b \in Vals,
       r \in {"min", "max"}, d \in Dtypes :
      /\ args = FlatArgs(ix, n, a, b, <<s>>, r, <<>>, d)
      /\ heap = NoBuffer

\* index matrices of shape (n, k) in range for the target shape T
IndexMatrices(T, n, k, xs) ==
  { m \in { IndexArray(<<n, k>>, Pattern(x, y, n * k)) :
              x \in xs, y \in 0..(MaxDim - 1) } :
      \A i \in 1..(n * k) : m.flat[i] < T[((i - 1) % k) + 1] }

NdValueCases ==
  \E T \in Shapes(1, 2) :
    \E k \in 1..Len(T), n \in 1..MaxRows :
      \E ix \in IndexMatrices(T, n, k, 0..(MaxDim - 1)),
         a \in Vals, b \in Vals, r \in {"min", "max"}, d \in Dtypes :
        /\ args = NdArgs(ix, Values(<<n>> \o PyFrom(T, k), a, b), <<T>>, r,
                         <<>>, d)
        /\ heap = NoBuffer

Given(opt, out, h) == [opt |-> opt, out |-> out, heap |-> h]

\* the size / shape argument (opt) and the out buffer, each given or not,
\* agreeing or not: T is the shape asked for, M a shape that differs from it
GivenCases(T, Ms) ==
  { Given(opt, <<>>, NoBuffer) : opt \in {<<>>, <<T>>} }
    \cup { Given(opt, <<"out">>, Buffer(kind, T)) :
             opt \in {<<>>, <<T>>}, kind \in Kinds }
    \cup { Given(<<T>>, <<"out">>, Buffer(kind, M)) : M \in Ms, kind \in Kinds }

FlatShapeCases ==
  \E s \in 1..MaxSize, n \in 1..MaxRows :
    \E x \in 0..(s - 1), y \in 0..(s - 1), r \in Reductions,
       g \in GivenCases(<<s>>, {<<s + 1>>, <<s, 1>>}) :
      /\ args = FlatArgs(Pattern(x, y, n), n, 3, 5,
                         IF Exists(g.opt) THEN g.opt[1] ELSE <<>>, r,
                         g.out, "float32")
      /\ heap = g.heap

\* a shape that differs from T
Mis(T) == <<T[1] + 1>> \o Tail(T)

NdIndices(T) ==
  {Ellipsis, IndexArray(<<>>, <<0>>)}
    \cup { IndexArray(<<k>>, Full(k, 0)) : k \in 1..Len(T) }
    \cup UNION { IndexMatrices(T, n, k, {0}) : n \in 1..MaxRows, k \in 1..Len(T) }

NdShapeCases ==
  \E T \in Shapes(1, 2) :
    \E ix \in NdIndices(T), us \in Shapes(0, 2), r \in Reductions,
       g \in GivenCases(T, {Mis(T)}) :
      /\ args = NdArgs(ix, Values(us, 3, 5), g.opt, r, g.out, "float32")
      /\ heap = g.heap

InitScatter ==
  /\ pc = "call"
  /\ (FlatValueCases \/ NdValueCases \/ FlatShapeCases \/ NdShapeCases)
  /\ ret = NoValue
  /\ err = NoErr
  /\ phases = <<>>
  /\ hist = heap

ScatterFlatCall ==
  /\ pc = "call"
  /\ args.fn = "scatter_flat"
  /\ \E r \in scatter_flat(heap, args.indices, args.updates, args.size,
                           args.reduction, args.out, args.dtype) :
       /\ heap' = r.heap
       /\ ret' = r.ret
       /\ err' = r.err
       /\ phases' = r.phases
  /\ pc' = "done"
  /\ UNCHANGED <<args, hist>>

ScatterNdCall ==
  /\ pc = "call"
  /\ args.fn = "scatter_nd"
  /\ \E r \in scatter_nd(heap, args.indices, args.updates, args.shape,
                         args.reduction, args.out, args.dtype) :
       /\ heap' = r.heap
       /\ ret' = r.ret
       /\ err' = r.err
       /\ phases' = r.phases
  /\ pc' = "done"
  /\ UNCHANGED <<args, hist>>

NextScatter == ScatterFlatCall \/ ScatterNdCall

SpecScatter == InitScatter /\ [][NextScatter]_vars

----------------------------------------------------------------------------
(* Claims on the Scatter-Reduce Engine *)

Ran(q) == { q[i] : i \in 1..Len(q) }

ScatterDone == pc = "done" /\ args.fn \in {"scatter_flat", "scatter_nd"}

\* the size / shape argument of the call, as a shape
AskedShape == IF args.fn = "scatter_flat" THEN <<args.size[1]>> ELSE args.shape[1]
AskedGiven == Exists(IF args.fn = "scatter_flat" THEN args.size ELSE args.shape)

\* the buffer passed as out, as it was when the call began
OutBefore == hist["out"].v

\* a call on a fresh target with reduction "min" or "max" that returned, the
\* updates having one element per addressed target element
FreshMinMax ==
  /\ ScatterDone /\ err = NoErr
  /\ args.reduction \in {"min", "max"}
  /\ ~Exists(args.out) /\ AskedGiven
  /\ args.indices.kind = "array"
  /\ IF args.fn = "scatter_flat"
     THEN args.updates.shape = args.indices.shape
     ELSE /\ Len(args.indices.shape) = 2
          /\ args.updates.shape =
               <<args.indices.shape[1]>>
                 \o PyFrom(args.shape[1], args.indices.shape[2])

\* the update values addressed to the target element at coordinates c
UpdatesAt(c) ==
  LET ix == args.indices
      k == IF args.fn = "scatter_flat" THEN 1 ELSE ix.shape[2]
      n == ix.shape[1]
  IN  { At(args.updates,
           IF args.fn = "scatter_flat" THEN <<j - 1>>
           ELSE <<j - 1>> \o SubSeq(c, k + 1, Len(c))) :
          j \in { i \in 1..n :
                    \A a \in 1..k : ix.flat[(i - 1) * k + a] = c[a] } }

Extreme(S) ==
  IF S = {} THEN 0
  ELSE IF args.reduction = "min" THEN MinOf(S) ELSE MaxOf(S)

\* every addressed element holds the min / max of its updates, every other 0
MinMaxResult ==
  /\ ret.shape = AskedShape
  /\ \A c \in Coords(AskedShape) : At(ret, c) = Extreme(UpdatesAt(c))

\* C2 as stated: with all update values strictly inside (-1e12, 1e12), a
\* fresh "min" ("max") scatter leaves the minimum (maximum) of its updates at
\* every addressed position and 0 at every other.
C2_MinMaxInsideSentinels ==
  (FreshMinMax
     /\ \A i \in 1..Len(args.updates.flat) :
          0 - Sentinel < args.updates.flat[i] /\ args.updates.flat[i] < Sentinel)
    => MinMaxResult

\* C2 amended: the same, the update values being strictly inside (-s, s) for
\* s the sentinel 1e12 as rounded to the updates' dtype (999999995904 for
\* float32).
C2_MinMaxInsideRoundedSentinels ==
  (FreshMinMax
     /\ \A i \in 1..Len(args.updates.flat) :
          /\ Cast(args.dtype, 0 - Sentinel) < args.updates.flat[i]
          /\ args.updates.flat[i] < Cast(args.dtype, Sentinel))
    => MinMaxResult

\* C2 witness: scatter_flat([0, 2], [5, 3], size=4, "min") = [5, 0, 3, 0]
C2_Witness ==
  /\ FreshMinMax /\ args.fn = "scatter_flat" /\ args.reduction = "min"
  /\ args.indices.flat = <<0, 2>> /\ args.updates.flat = <<5, 3>>
  /\ args.size = <<4>>
  /\ ret = [shape |-> <<4>>, flat |-> <<5, 0, 3, 0>>]

InvalidReduction ==
  ScatterDone /\ args.reduction \notin {"sum", "replace", "min", "max"}

\* the size / shape argument and the out buffer are both given and disagree
Mismatch ==
  /\ ScatterDone /\ AskedGiven /\ Exists(args.out)
  /\ OutBefore.shape # AskedShape

\* C3 as stated: an unknown reduction string always fails with the
\* invalid-argument exception naming the received value, returns nothing and
\* leaves the output buffer unchanged.
C3_ReductionRejected ==
  InvalidReduction =>
    /\ err = ReductionError(args.reduction)
    /\ ret = NoValue
    /\ heap = hist

\* C3 amended: an unknown reduction string always fails, never fills or
\* writes a target, returns nothing and leaves the output buffer unchanged;
\* the failure is the invalid-argument exception naming the received value
\* unless an earlier step failed: the size / shape agreement check, or in
\* scatter_nd the expected-shape and broadcast resolution.
C3_ReductionRejectedUnlessEarlierFailure ==
  InvalidReduction =>
    /\ err # NoErr
    /\ ret = NoValue
    /\ heap = hist
    /\ Ran(phases) \cap {"fill", "write", "postfix", "inplace_update"} = {}
    /\ \/ err = ReductionError(args.reduction)
       \/ err = ShapeMismatch /\ Mismatch
       \/ /\ args.fn = "scatter_nd"
          /\ err.exc = "engine"
          /\ err.site \in {"expected_shape", "broadcast_to", "shape"}
    /\ (args.fn = "scatter_flat" /\ ~Mismatch) =>
         err = ReductionError(args.reduction)
    /\ (args.fn = "scatter_nd" /\ ~Mismatch /\ args.indices.kind = "ellipsis"
          /\ (AskedGiven \/ Exists(args.out))) =>
         err = ReductionError(args.reduction)

\* C3 witness: reduction "avg" rejected by name, an out buffer being passed
C3_Witness ==
  /\ InvalidReduction /\ args.reduction = "avg" /\ Exists(args.out)
  /\ err = ReductionError("avg")
  /\ err.value = "avg"

\* C7: a scatter call given an output buffer leaves the scattered result in
\* the buffer the caller passed.
C7_OutBufferHoldsResult ==
  (ScatterDone /\ Exists(args.out) /\ ret # NoValue) =>
    heap["out"].v = ret

\* C8: when the size / shape argument and the out buffer disagree, the call
\* fails with the shape-mismatch error before any broadcasting, filling or
\* writing, returns nothing and leaves the buffer unchanged.
C8_MismatchFailsFirst ==
  Mismatch =>
    /\ err = ShapeMismatch
    /\ phases = <<"check_equal">>
    /\ ret = NoValue
    /\ heap = hist

\* the same statement for scatter_flat alone
C8_MismatchFailsFirstFlat ==
  (Mismatch /\ args.fn = "scatter_flat") =>
    /\ err = ShapeMismatch
    /\ phases = <<"check_equal">>
    /\ ret = NoValue
    /\ heap = hist

\* a call of scatter_nd that reached the broadcast resolution
Resolving ==
  /\ pc = "done" /\ args.fn = "scatter_nd"
  /\ args.indices.kind = "array"
  /\ AskedGiven \/ Exists(args.out)

\* expected shape = indices.shape[:-1] + target.shape[indices.shape[-1]:]
ExpectedOfCall ==
  LET ix == NormalizeIndices(args.indices)
      tshape == IF Exists(args.out) THEN OutBefore.shape ELSE args.shape[1]
  IN  PySlice(ix.shape, 0, Len(ix.shape) - 1)
        \o PyFrom(tshape, Min2(ix.shape[Len(ix.shape)], Len(tshape)))

\* C10: scatter_nd broadcasts updates exactly when updates has fewer
\* elements than the expected shape, indices exactly when it has more, and
\* neither when the element counts are equal.
C10_BroadcastByElementCount ==
  Resolving =>
    /\ "broadcast_updates" \in Ran(phases)
         <=> Prod(args.updates.shape) < Prod(ExpectedOfCall)
    /\ "broadcast_indices" \in Ran(phases)
         <=> Prod(args.updates.shape) > Prod(ExpectedOfCall)

\* what the code does instead: it compares the sums of the extents
C10_BroadcastBySummedExtents ==
  Resolving =>
    /\ "broadcast_updates" \in Ran(phases)
         <=> SumSeq(args.updates.shape) < SumSeq(ExpectedOfCall)
    /\ "broadcast_indices" \in Ran(phases)
         <=> SumSeq(args.updates.shape) > SumSeq(ExpectedOfCall)

====
